---- MODULE Spec2Model ----
(***************************************************************************)
(* A model of the TIFF -> JPG converter (TomFellows/photo-converter):      *)
(* InputParser (url-parser.ts), ImageConverter (converter.ts) and the      *)
(* part of GoogleDriveService (google-drive.ts) the converter calls.       *)
(*                                                                         *)
(* Strings are sequences of one-character strings, so that URL parsing,    *)
(* the three folder-id regular expressions, path.extname and toLowerCase   *)
(* are computed character by character as the code computes them.  A path  *)
(* on disk is a sequence of segments (each a string).                      *)
(***************************************************************************)
EXTENDS Integers, Sequences, FiniteSets, TLC

VARIABLES
  input,    \* the string given to InputParser.parse
  parsed,   \* what InputParser.parse returned for it
  tree,     \* the local file system below the working directory
  options,  \* ImageConverter.options (ConversionOptions)
  call,     \* a direct call of findTiffFiles / processLocalPath
  ret,      \* what that call returned or threw
  service,  \* the converter's googleDriveService
  tempDirExists,  \* whether <cwd>/.temp-downloads exists
  staged,   \* the names of the files in it
  dirOwner, \* the call of processInput that created it (0: nobody)
  clock,    \* Date.now()
  runs      \* the calls of processInput / convertFiles, see IdleRun

vars == <<input, parsed, tree, options, call, ret,
          service, tempDirExists, staged, dirOwner, clock, runs>>

parseVars == <<input, parsed>>
findVars == <<call, ret>>
pipeVars == <<service, tempDirExists, staged, dirOwner, clock, runs>>

\* ------------------------------------------------------------------------
\* Bounds of the model
\* ------------------------------------------------------------------------

MaxChunks == 4

MaxNodes == 3

MaxInputs == 2

MaxRemote == 2

MaxFiles == 2

MaxClock == 1

MaxOverlapInputs == 1

\* ------------------------------------------------------------------------
\* Characters and strings
\* ------------------------------------------------------------------------

LowerLetters ==
  {"a","b","c","d","e","f","g","h","i","j","k","l","m",
   "n","o","p","q","r","s","t","u","v","w","x","y","z"}

UpperLetters ==
  {"A","B","C","D","E","F","G","H","I","J","K","L","M",
   "N","O","P","Q","R","S","T","U","V","W","X","Y","Z"}

Digits == {"0","1","2","3","4","5","6","7","8","9"}

UpperToLower ==
  [c \in UpperLetters |->
     CASE c = "A" -> "a" [] c = "B" -> "b" [] c = "C" -> "c" [] c = "D" -> "d"
       [] c = "E" -> "e" [] c = "F" -> "f" [] c = "G" -> "g" [] c = "H" -> "h"
       [] c = "I" -> "i" [] c = "J" -> "j" [] c = "K" -> "k" [] c = "L" -> "l"
       [] c = "M" -> "m" [] c = "N" -> "n" [] c = "O" -> "o" [] c = "P" -> "p"
       [] c = "Q" -> "q" [] c = "R" -> "r" [] c = "S" -> "s" [] c = "T" -> "t"
       [] c = "U" -> "u" [] c = "V" -> "v" [] c = "W" -> "w" [] c = "X" -> "x"
       [] c = "Y" -> "y" [] c = "Z" -> "z"]

\* String.prototype.toLowerCase, on the ASCII strings of the model.
ToLowerCase(s) ==
  [i \in 1..Len(s) |-> IF s[i] \in UpperLetters THEN UpperToLower[s[i]] ELSE s[i]]

\* The least element of a non-empty set of integers.
MinOf(S) == CHOOSE x \in S : \A y \in S : x <= y

MaxOf(S) == CHOOSE x \in S : \A y \in S : y <= x

\* The positions at which pat occurs in s.
Occurrences(s, pat) ==
  {i \in 1..(Len(s) - Len(pat) + 1) : SubSeq(s, i, i + Len(pat) - 1) = pat}

\* String.prototype.includes.
Includes(s, pat) == Occurrences(s, pat) # {}

\* s from position i to its end.
From(s, i) == SubSeq(s, i, Len(s))

\* The longest prefix of s whose characters all satisfy the class Cls.
PrefixIn(s, Cls) ==
  LET bad == {i \in 1..Len(s) : s[i] \notin Cls}
  IN  IF bad = {} THEN s ELSE SubSeq(s, 1, MinOf(bad) - 1)

\* ------------------------------------------------------------------------
\* new URL(input): the WHATWG URL parser without a base URL, for the
\* characters the model's inputs are made of (no whitespace, no '%', no
\* brackets, no numeric host labels, no scheme "file").
\* ------------------------------------------------------------------------

SchemeChars == LowerLetters \cup UpperLetters \cup Digits \cup {"+", "-", "."}

SpecialSchemes ==
  { <<"h","t","t","p">>, <<"h","t","t","p","s">>, <<"f","t","p">>,
    <<"w","s">>, <<"w","s","s">> }

\* Forbidden host code points; a domain (special scheme) also forbids '%'.
ForbiddenHost ==
  {" ", "#", "/", ":", "<", ">", "?", "@", "[", "\\", "]", "^", "|"}

ForbiddenDomain == ForbiddenHost \cup {"%"}

UrlFailure == [ok |-> FALSE, hostname |-> <<>>, rest |-> <<>>]

\* The authority of a URL: `auth` is the text between the slashes and the
\* first terminator, `rest` what follows it (path, query, fragment).
ParseAuthority(auth, rest, special) ==
  LET ats      == {i \in 1..Len(auth) : auth[i] = "@"}
      hostport == IF ats = {} THEN auth ELSE From(auth, MaxOf(ats) + 1)
      colons   == {i \in 1..Len(hostport) : hostport[i] = ":"}
      host     == IF colons = {} THEN hostport
                  ELSE SubSeq(hostport, 1, MinOf(colons) - 1)
      port     == IF colons = {} THEN <<>> ELSE From(hostport, MinOf(colons) + 1)
      badHost  == IF special
                  THEN \E i \in 1..Len(host) : host[i] \in ForbiddenDomain
                  ELSE \E i \in 1..Len(host) : host[i] \in ForbiddenHost
  IN  IF ats # {} /\ hostport = <<>> THEN UrlFailure
      ELSE IF host = <<>> /\ (special \/ colons # {} \/ ats # {}) THEN UrlFailure
      ELSE IF \E i \in 1..Len(port) : port[i] \notin Digits THEN UrlFailure
      ELSE IF badHost THEN UrlFailure
      ELSE [ok |-> TRUE,
            hostname |-> IF special THEN ToLowerCase(host) ELSE host,
            rest |-> rest]

\* new URL(s): ok = FALSE where the constructor throws TypeError.
UrlParse(s) ==
  LET scheme == PrefixIn(s, SchemeChars)
      k      == Len(scheme) + 1
  IN  IF scheme = <<>> \/ s[1] \notin (LowerLetters \cup UpperLetters)
         \/ k > Len(s) \/ s[k] # ":"
      THEN UrlFailure
      ELSE
        LET special == ToLowerCase(scheme) \in SpecialSchemes
            after   == From(s, k + 1)
            slashes == IF special THEN PrefixIn(after, {"/", "\\"})
                       ELSE IF Len(after) >= 2 /\ SubSeq(after, 1, 2) = <<"/", "/">>
                            THEN <<"/", "/">> ELSE <<>>
            body    == From(after, Len(slashes) + 1)
            stop    == IF special THEN {"/", "\\", "?", "#"} ELSE {"/", "?", "#"}
            auth    == PrefixIn(body, {c \in {body[i] : i \in 1..Len(body)} : c \notin stop})
        IN  IF ~special /\ slashes = <<>>
            THEN [ok |-> TRUE, hostname |-> <<>>, rest |-> after]
            ELSE ParseAuthority(auth, From(body, Len(auth) + 1), special)

\* ------------------------------------------------------------------------
\* InputParser (url-parser.ts)
\* ------------------------------------------------------------------------

\* 'drive.google.com'
DriveDomain == <<"d","r","i","v","e",".","g","o","o","g","l","e",".","c","o","m">>

\* The character class [a-zA-Z0-9-_] of the three patterns.
IdChars == LowerLetters \cup UpperLetters \cup Digits \cup {"-", "_"}

\* The literal prefixes of the three patterns, in the order of the array.
FolderPatterns ==
  << <<"/","f","o","l","d","e","r","s","/">>, <<"i","d","=">>, <<"/","d","/">> >>

\* url.match(/<lit>([a-zA-Z0-9-_]+)/): the capture group of the leftmost
\* match, <<>> when there is no match (match returns null).
MatchCapture(url, lit) ==
  LET hits == {i \in Occurrences(url, lit) :
                 i + Len(lit) <= Len(url) /\ url[i + Len(lit)] \in IdChars}
  IN  IF hits = {} THEN <<>>
      ELSE PrefixIn(From(url, MinOf(hits) + Len(lit)), IdChars)

\* extractFolderId: the first pattern, in array order, that matches.
ExtractFolderId(url) ==
  LET matching == {p \in 1..Len(FolderPatterns) : MatchCapture(url, FolderPatterns[p]) # <<>>}
  IN  IF matching = {} THEN <<>>
      ELSE MatchCapture(url, FolderPatterns[MinOf(matching)])

LocalInput(s) == [type |-> "local", path |-> s]

\* parse looking for the domain in the whole input instead of in the host
\* of the parsed URL.
ParseDomainAnywhere(s) ==
  IF Includes(ToLowerCase(s), DriveDomain)
  THEN LET folderId == ExtractFolderId(s)
       IN  IF folderId # <<>>
           THEN [type |-> "google-drive", path |-> s, folderId |-> folderId]
           ELSE LocalInput(s)
  ELSE LocalInput(s)

\* InputParser.parse
Parse(s) ==
  LET u == UrlParse(s)
  IN  IF u.ok /\ Includes(u.hostname, DriveDomain)
      THEN LET folderId == ExtractFolderId(s)
           IN  IF folderId # <<>>
               THEN [type |-> "google-drive", path |-> s, folderId |-> folderId]
               ELSE LocalInput(s)
      ELSE LocalInput(s)

\* ------------------------------------------------------------------------
\* Paths (Node's path module, POSIX flavour).  A path is a sequence of
\* segments below the root; a segment is a string.
\* ------------------------------------------------------------------------

Last(s) == s[Len(s)]

\* path.extname of a file name: from the last '.' to the end, '' when there
\* is no '.', when the only '.' is the first character, or for '..'.
Extname(name) ==
  LET dots == {i \in 1..Len(name) : name[i] = "."}
  IN  IF dots = {} \/ MaxOf(dots) = 1 \/ name = <<".", ".">> THEN <<>>
      ELSE From(name, MaxOf(dots))

\* path.extname(p), of the last segment of p.
PathExtname(p) == IF p = <<>> THEN <<>> ELSE Extname(Last(p))

\* path.dirname(p)
Dirname(p) == IF p = <<>> THEN <<>> ELSE SubSeq(p, 1, Len(p) - 1)

\* path.basename(p, ext): the last segment, without the suffix ext when it
\* ends with ext and is not ext itself.
Basename(p, ext) ==
  LET b == IF p = <<>> THEN <<>> ELSE Last(p)
  IN  IF ext # <<>> /\ Len(b) > Len(ext) /\ From(b, Len(b) - Len(ext) + 1) = ext
      THEN SubSeq(b, 1, Len(b) - Len(ext))
      ELSE b

\* path.join(dir, name) for a single-segment name.
Join(dir, name) == Append(dir, name)

\* The segments of a string, split at '/'.
RECURSIVE Split(_)
Split(s) ==
  LET seg == PrefixIn(s, {c \in {s[i] : i \in 1..Len(s)} : c # "/"})
  IN  IF Len(seg) = Len(s) THEN <<seg>>
      ELSE <<seg>> \o Split(From(s, Len(seg) + 2))

\* Normalisation of segments: '' and '.' are dropped, '..' removes the
\* segment before it.
RECURSIVE Normalize(_, _)
Normalize(done, todo) ==
  IF todo = <<>> THEN done
  ELSE LET h == Head(todo)
       IN  IF h = <<>> \/ h = <<".">> THEN Normalize(done, Tail(todo))
           ELSE IF h = <<".", ".">>
                THEN Normalize(Dirname(done), Tail(todo))
                ELSE Normalize(Append(done, h), Tail(todo))

\* process.cwd(): /w
Cwd == << <<"w">> >>

\* path.resolve(inputPath)
Resolve(inputPath) ==
  IF inputPath # <<>> /\ inputPath[1] = "/"
  THEN Normalize(<<>>, Split(inputPath))
  ELSE Normalize(Cwd, Split(inputPath))

\* ------------------------------------------------------------------------
\* The local file system: node 0 is the working directory, node i > 0 is
\* an entry [parent, kind, name] of the directory `parent`.  kind is
\*   "file"  a regular file
\*   "dir"   a directory
\*   "link"  a symbolic link to a regular file (Dirent.isFile() is false
\*           for it, fs.stat follows it)
\*   "fifo"  something that exists and is neither a file nor a directory
\* ------------------------------------------------------------------------

Kinds == {"file", "dir", "link", "fifo"}

NodesOf(t) == DOMAIN t

RECURSIVE PathOf(_, _)
PathOf(t, n) == IF n = 0 THEN Cwd ELSE Join(PathOf(t, t[n].parent), t[n].name)

KindOf(t, n) == IF n = 0 THEN "dir" ELSE t[n].kind

Missing == -1

\* The node a resolved path names, Missing when nothing is there.
NodeAt(t, p) ==
  LET hits == {n \in NodesOf(t) \cup {0} : PathOf(t, n) = p}
  IN  IF hits = {} THEN Missing ELSE CHOOSE n \in hits : TRUE

\* fs.pathExists(p)
PathExists(t, p) == NodeAt(t, p) # Missing

\* fs.stat(p).isFile() / .isDirectory(): stat follows symbolic links.
StatIsFile(t, n) == KindOf(t, n) \in {"file", "link"}

StatIsDirectory(t, n) == KindOf(t, n) = "dir"

\* Dirent.isFile() / .isDirectory() of readdir's withFileTypes entries.
DirentIsFile(t, n) == KindOf(t, n) = "file"

DirentIsDirectory(t, n) == KindOf(t, n) = "dir"

\* A set of integers as an increasing sequence.
RECURSIVE Ascending(_)
Ascending(S) ==
  IF S = {} THEN <<>> ELSE <<MinOf(S)>> \o Ascending(S \ {MinOf(S)})

\* fs.readdir(directory, {withFileTypes: true}): the entries of node d, in
\* the order the directory enumerates them (here by node number).
Readdir(t, d) == Ascending({n \in NodesOf(t) : t[n].parent = d})

TifExt == <<".", "t", "i", "f">>
TiffExt == <<".", "t", "i", "f", "f">>

\* ext === '.tif' || ext === '.tiff', ext the lower-cased extension.
IsTiffName(name) ==
  LET ext == ToLowerCase(Extname(name))
  IN  ext = TifExt \/ ext = TiffExt

\* ImageConverter.findTiffFiles(directory), directory being node d with
\* path dirPath: the loop over the entries, rest being those still to visit.
RECURSIVE FindLoop(_, _, _, _)
FindLoop(t, dirPath, rest, recursive) ==
  IF rest = <<>> THEN <<>>
  ELSE LET item     == Head(rest)
           fullPath == Join(dirPath, t[item].name)
           here ==
             IF recursive
             THEN IF DirentIsDirectory(t, item)
                  THEN FindLoop(t, fullPath, Readdir(t, item), recursive)
                  ELSE IF DirentIsFile(t, item) /\ IsTiffName(t[item].name)
                       THEN <<fullPath>> ELSE <<>>
             ELSE IF DirentIsFile(t, item) /\ IsTiffName(t[item].name)
                  THEN <<fullPath>> ELSE <<>>
       IN  here \o FindLoop(t, dirPath, Tail(rest), recursive)

\* findTiffFiles descending into subdirectories whatever options.recursive.
FindTiffFilesAlwaysRecursive(t, d, recursive) ==
  FindLoop(t, PathOf(t, d), Readdir(t, d), TRUE)

\* ImageConverter.findTiffFiles(directory)
FindTiffFiles(t, d, recursive) == FindLoop(t, PathOf(t, d), Readdir(t, d), recursive)

Threw(msg) == [threw |-> TRUE, error |-> msg]

Returned(v) == [threw |-> FALSE, value |-> v]

\* ImageConverter.processLocalPath(inputPath)
ProcessLocalPath(t, inputPath, recursive) ==
  LET resolvedPath == Resolve(inputPath)
      n            == NodeAt(t, resolvedPath)
  IN  IF ~PathExists(t, resolvedPath) THEN Threw("Path does not exist")
      ELSE IF StatIsFile(t, n) THEN Returned(<<resolvedPath>>)
      ELSE IF StatIsDirectory(t, n) THEN Returned(FindTiffFiles(t, n, recursive))
      ELSE Returned(<<>>)

\* ------------------------------------------------------------------------
\* The staging directory and fs.stat
\* ------------------------------------------------------------------------

\* path.join(process.cwd(), '.temp-downloads')
TempDir ==
  Join(Cwd, <<".","t","e","m","p","-","d","o","w","n","l","o","a","d","s">>)

\* What fs.stat(p) finds: "file" (a regular file, or a link to one), "dir",
\* "other", or "missing" (stat throws).  A path in the staging directory
\* is there when the directory exists and a download wrote that name.
Stat(t, dirExists, files, p) ==
  IF p = TempDir THEN (IF dirExists THEN "dir" ELSE "missing")
  ELSE IF p # <<>> /\ Dirname(p) = TempDir
       THEN (IF dirExists /\ Last(p) \in files THEN "file" ELSE "missing")
       ELSE LET n == NodeAt(t, p)
            IN  IF n = Missing THEN "missing"
                ELSE IF StatIsFile(t, n) THEN "file"
                ELSE IF StatIsDirectory(t, n) THEN "dir"
                ELSE "other"

\* ------------------------------------------------------------------------
\* The conversion engine: convertFile and its helpers.  env is what the
\* image codec (sharp) and fs.ensureDir answer during one call:
\*   meta      the format sharp(filePath).metadata() reports, or "throws"
\*   ensureDir whether fs.ensureDir(dirname(outputPath)) succeeds
\*   toFile    whether sharp(...).jpeg(...).toFile(outputPath) succeeds
\* ------------------------------------------------------------------------

ConvEnvs == [meta : {"throws", "tiff", "jpeg"}, ensureDir : BOOLEAN, toFile : BOOLEAN]

\* isValidTiffFile accepting whatever format the metadata probe reports.
IsValidTiffFileAnyFormat(statKind, filePath, env) ==
  IF statKind = "missing" THEN FALSE
  ELSE IF statKind # "file" THEN FALSE
  ELSE LET ext == ToLowerCase(PathExtname(filePath))
       IN  IF ext # TifExt /\ ext # TiffExt THEN FALSE
           ELSE env.meta # "throws"

\* ImageConverter.isValidTiffFile
IsValidTiffFile(statKind, filePath, env) ==
  IF statKind = "missing" THEN FALSE
  ELSE IF statKind # "file" THEN FALSE
  ELSE LET ext == ToLowerCase(PathExtname(filePath))
       IN  IF ext # TifExt /\ ext # TiffExt THEN FALSE
           ELSE IF env.meta = "throws" THEN FALSE
           ELSE env.meta = "tiff"

JpgExt == <<".", "j", "p", "g">>

\* ImageConverter.generateOutputPath
GenerateOutputPath(inputPath, opts) ==
  LET dir      == IF opts.outputDir # <<>> THEN opts.outputDir ELSE Dirname(inputPath)
      basename == Basename(inputPath, PathExtname(inputPath))
  IN  Join(dir, basename \o JpgExt)

\* The try block of convertFile: the ConversionResult it returns, or the
\* error thrown inside it.
ConvertFileTry(inputPath, statKind, env, opts, elapsed) ==
  IF ~IsValidTiffFile(statKind, inputPath, env)
  THEN Threw("Input file is not a valid TIFF image")
  ELSE IF ~env.ensureDir THEN Threw("ensureDir failed")
  ELSE IF ~env.toFile THEN Threw("codec failed")
  ELSE Returned([inputPath |-> inputPath,
                 outputPath |-> GenerateOutputPath(inputPath, opts),
                 success |-> TRUE, error |-> "",
                 processingTime |-> elapsed])

\* convertFile without its catch block: the error of the try block
\* propagates.
ConvertFileRethrows(inputPath, statKind, env, opts, elapsed) ==
  ConvertFileTry(inputPath, statKind, env, opts, elapsed)

\* ImageConverter.convertFile: the catch block turns every error of the
\* try block into a returned result.
ConvertFile(inputPath, statKind, env, opts, elapsed) ==
  LET t == ConvertFileTry(inputPath, statKind, env, opts, elapsed)
  IN  IF t.threw
      THEN Returned([inputPath |-> inputPath, outputPath |-> <<>>,
                     success |-> FALSE, error |-> t.error,
                     processingTime |-> elapsed])
      ELSE t

\* The calls convertFile makes to the codec: the metadata probe once the
\* file is a regular file with a TIFF extension, toFile once the file is
\* valid and the output directory exists.
CodecCallsOf(inputPath, statKind, env) ==
  LET probed == statKind = "file" /\ IsTiffName(Last(inputPath))
  IN  (IF probed THEN 1 ELSE 0)
      + (IF IsValidTiffFile(statKind, inputPath, env) /\ env.ensureDir THEN 1 ELSE 0)

\* ------------------------------------------------------------------------
\* The state of one call of processInput (or of convertFiles)
\* ------------------------------------------------------------------------

Runs == {1, 2}

NoStats == [none |-> TRUE]

\* { total: 0, successful: 0, failed: 0, totalTime: 0 }
ZeroStats == [total |-> 0, successful |-> 0, failed |-> 0, totalTime |-> 0]

\* pc        where the call stands
\* entry     the method called: "processInput" or "convertFiles"
\* inputs    the argument of processInput; idx the input the loop is at
\* allFiles  the candidate files collected so far
\* pending   the listed remote files still to download; downloaded the
\*           staged paths of those downloaded (downloadedFiles)
\* ci        the file convertFiles is at; stats its ConversionStats
\* startTime, fileStart  Date.now() at the start of convertFiles, convertFile
\* error     the error being thrown ("" when none); retval the returned stats
\* History of the call, read by the properties only:
\* results   the ConversionResult of every convertFile call
\* expect    for each of them, whether the file and the environment were good
\* fault     the input-expansion or setup step that failed ("" when none)
\* listCalls, downloadCalls  calls of listTiffFiles and downloadFile
\* codecCalls, engineCalls   calls of the codec and of convertFiles
\* removed   the run that had created the directory this call's cleanup removed
\* The write streams of downloadFile (followed in SpecDownload only):
\* writer    the stream of the download being awaited: "none" or "open"
\* flushing  the staged names whose stream was still writing when the
\*           download's promise resolved, and has not finished since
\* lost      the names whose stream failed, a failure no one was told of
IdleRun ==
  [pc |-> "idle", entry |-> "none", inputs |-> <<>>, idx |-> 0,
   allFiles |-> <<>>, pending |-> <<>>, downloaded |-> <<>>,
   ci |-> 0, stats |-> NoStats, startTime |-> 0, fileStart |-> 0,
   error |-> "", retval |-> NoStats,
   results |-> <<>>, expect |-> <<>>, fault |-> "",
   listCalls |-> 0, downloadCalls |-> 0, codecCalls |-> 0, engineCalls |-> 0,
   removed |-> 0,
   writer |-> "none", flushing |-> {}, lost |-> {}]

\* An error thrown inside the try block of processInput: control goes to
\* the finally block, and the error propagates after it.
Throw(run, msg) ==
  [run EXCEPT !.error = msg,
              !.pc = IF run.entry = "processInput" THEN "finally" ELSE "thrown"]

\* No call of processInput or convertFiles has been made.
PipelineIdle ==
  /\ service = "none"
  /\ tempDirExists = FALSE
  /\ staged = {}
  /\ dirOwner = 0
  /\ clock = 0
  /\ runs = [r \in Runs |-> IdleRun]

\* ------------------------------------------------------------------------
\* processInput
\* ------------------------------------------------------------------------

\* processInput(ins) is called.
Start(r, ins) ==
  /\ runs[r].pc = "idle"
  /\ runs' = [runs EXCEPT ![r] =
       [IdleRun EXCEPT !.pc = "ensureDir", !.entry = "processInput",
                       !.inputs = ins, !.idx = 1]]
  /\ UNCHANGED <<tree, options, service, tempDirExists, staged, dirOwner, clock,
                 parseVars, findVars>>

\* await fs.ensureDir(tempDir): the directory is created unless it exists;
\* a failure is thrown.
EnsureDir(r) ==
  /\ runs[r].pc = "ensureDir"
  /\ \E ok \in BOOLEAN :
       IF ok
       THEN /\ tempDirExists' = TRUE
            /\ dirOwner' = IF tempDirExists THEN dirOwner ELSE r
            /\ runs' = [runs EXCEPT ![r].pc = "loop"]
       ELSE /\ runs' = [runs EXCEPT ![r] =
                 Throw([runs[r] EXCEPT !.fault = "ensureDir"], "ensureDir failed")]
            /\ UNCHANGED <<tempDirExists, dirOwner>>
  /\ UNCHANGED <<tree, options, service, staged, clock, parseVars, findVars>>

\* The input the loop of processInput is at.
CurrentInput(run) == Parse(run.inputs[run.idx])

AtInput(r) ==
  /\ runs[r].pc = "loop"
  /\ runs[r].idx <= Len(runs[r].inputs)

\* The else branch of the loop: processLocalPath, whose error propagates.
LocalExpanded(run, t, opts) ==
  LET files == ProcessLocalPath(t, CurrentInput(run).path, opts.recursive)
  IN  IF files.threw
      THEN Throw([run EXCEPT !.fault = "pathMissing"], files.error)
      ELSE [run EXCEPT !.allFiles = @ \o files.value, !.idx = @ + 1]

ExpandLocal(r) ==
  /\ AtInput(r)
  /\ CurrentInput(runs[r]).type = "local"
  /\ runs' = [runs EXCEPT ![r] = LocalExpanded(runs[r], tree, options)]
  /\ UNCHANGED <<tree, options, service, tempDirExists, staged, dirOwner, clock,
                 parseVars, findVars>>

\* The google-drive branch up to the call of listTiffFiles: the service
\* must be there (processInput) and initialized (processGoogleDriveFolder).
RemoteEntered(run, svc) ==
  IF svc = "none"
  THEN Throw([run EXCEPT !.fault = "serviceMissing"],
             "Google Drive service not initialized")
  ELSE IF svc # "ready"
       THEN Throw([run EXCEPT !.fault = "notInitialized"],
                  "Google Drive service not properly initialized")
       ELSE [run EXCEPT !.pc = "list"]

ExpandRemote(r) ==
  /\ AtInput(r)
  /\ CurrentInput(runs[r]).type = "google-drive"
  /\ runs' = [runs EXCEPT ![r] = RemoteEntered(runs[r], service)]
  /\ UNCHANGED <<tree, options, service, tempDirExists, staged, dirOwner, clock,
                 parseVars, findVars>>

\* ------------------------------------------------------------------------
\* processGoogleDriveFolder: the listing and the download loop
\* ------------------------------------------------------------------------

\* The files a Drive folder may hold: one named *.tif, and one named
\* without an extension (listed for its MIME type).
RemoteFiles ==
  { [id |-> "1", name |-> <<"r", ".", "t", "i", "f">>],
    [id |-> "2", name |-> <<"m">>] }

DistinctIds(l) == \A i, j \in 1..Len(l) : i # j => l[i].id # l[j].id

\* What listTiffFiles(folderId) may return: response.data.files || [].
Listings ==
  {l \in UNION {[1..n -> RemoteFiles] : n \in 0..MaxRemote} : DistinctIds(l)}

\* The outcome of await listTiffFiles(folderId): its error propagates.
Listed(run, out) ==
  IF out.threw
  THEN Throw([run EXCEPT !.fault = "list"], out.error)
  ELSE [run EXCEPT !.pending = out.value, !.downloaded = <<>>, !.pc = "download"]

ListFiles(r) ==
  /\ runs[r].pc = "list"
  /\ \E out \in {Threw("Failed to list files")} \cup {Returned(l) : l \in Listings} :
       runs' = [runs EXCEPT ![r] = Listed([runs[r] EXCEPT !.listCalls = @ + 1], out)]
  /\ UNCHANGED <<tree, options, service, tempDirExists, staged, dirOwner, clock,
                 parseVars, findVars>>

\* The download loop with a per-file catch: a failed download is skipped
\* and the loop goes on.
DownloadedSkipsFailure(run, ok) ==
  IF ok
  THEN [run EXCEPT !.downloaded = Append(@, Join(TempDir, Head(run.pending).name)),
                   !.pending = Tail(@)]
  ELSE [run EXCEPT !.fault = "download", !.pending = Tail(@)]

\* One round of the download loop: the staged path is pushed when
\* downloadFile resolved, its error propagates when it rejected.
Downloaded(run, ok) ==
  IF ok
  THEN [run EXCEPT !.downloaded = Append(@, Join(TempDir, Head(run.pending).name)),
                   !.pending = Tail(@)]
  ELSE Throw([run EXCEPT !.fault = "download"], "Failed to download file")

\* await downloadFile(file.id, tempPath): the bytes go to tempPath, which
\* is written only if the staging directory is there.
DownloadFile(r) ==
  /\ runs[r].pc = "download"
  /\ runs[r].pending # <<>>
  /\ \E ok \in BOOLEAN :
       /\ runs' = [runs EXCEPT ![r] =
            Downloaded([runs[r] EXCEPT !.downloadCalls = @ + 1], ok)]
       /\ staged' = IF ok /\ tempDirExists
                    THEN staged \cup {Head(runs[r].pending).name}
                    ELSE staged
  /\ UNCHANGED <<tree, options, service, tempDirExists, dirOwner, clock,
                 parseVars, findVars>>

\* return downloadedFiles; allFiles.push(...files)
DownloadsDone(r) ==
  /\ runs[r].pc = "download"
  /\ runs[r].pending = <<>>
  /\ runs' = [runs EXCEPT ![r] =
       [runs[r] EXCEPT !.allFiles = @ \o runs[r].downloaded, !.idx = @ + 1,
                       !.pc = "loop"]]
  /\ UNCHANGED <<tree, options, service, tempDirExists, staged, dirOwner, clock,
                 parseVars, findVars>>

\* ------------------------------------------------------------------------
\* GoogleDriveService.downloadFile, stream by stream.  DownloadFile above
\* is one await of it seen from the loop; the actions below follow the
\* response stream and the write stream it is piped into.
\* ------------------------------------------------------------------------

\* await this.drive.files.get(..., { responseType: 'stream' }): a rejection
\* is caught and rethrown as 'Failed to download file'.  Otherwise
\* fs.createWriteStream(outputPath) creates the (empty) file, the promise
\* is made and the response is piped into the writer.
DownloadRequest(r) ==
  /\ runs[r].pc = "download"
  /\ runs[r].pending # <<>>
  /\ \E ok \in BOOLEAN :
       LET run == [runs[r] EXCEPT !.downloadCalls = @ + 1]
       IN  IF ok
           THEN /\ runs' = [runs EXCEPT ![r] =
                     [run EXCEPT !.writer = "open", !.pc = "streaming"]]
                /\ staged' = IF tempDirExists
                             THEN staged \cup {Head(run.pending).name}
                             ELSE staged
           ELSE /\ runs' = [runs EXCEPT ![r] = Downloaded(run, FALSE)]
                /\ UNCHANGED staged
  /\ UNCHANGED <<tree, options, service, tempDirExists, dirOwner, clock,
                 parseVars, findVars>>

\* response.data emits 'end': the listener registered first calls
\* resolve(); pipe's own listener then calls writer.end().  The await in
\* the download loop returns and tempPath is pushed while the writer
\* still has to write what it buffered and to emit 'finish'.
StreamEnd(r) ==
  /\ runs[r].pc = "streaming"
  /\ runs' = [runs EXCEPT ![r] =
       [Downloaded(runs[r], TRUE) EXCEPT
          !.writer = "none",
          !.flushing = @ \cup {Head(runs[r].pending).name},
          !.pc = "download"]]
  /\ UNCHANGED <<tree, options, service, tempDirExists, staged, dirOwner, clock,
                 parseVars, findVars>>

\* response.data emits 'error': .on('error', reject) rejects the promise,
\* and the await in the download loop throws.
StreamError(r) ==
  /\ runs[r].pc = "streaming"
  /\ runs' = [runs EXCEPT ![r] =
       [Downloaded(runs[r], FALSE) EXCEPT !.writer = "none"]]
  /\ UNCHANGED <<tree, options, service, tempDirExists, staged, dirOwner, clock,
                 parseVars, findVars>>

\* The writer emits 'error' while the download is awaited (disk full, the
\* file cannot be opened).  downloadFile listens to the response only:
\* pipe unpipes the writer, so the response never ends, and the error,
\* which has no listener, is an uncaught exception.  Whether the process
\* dies of it or goes on, the promise neither resolves nor rejects.
WriterError(r) ==
  /\ runs[r].pc = "streaming"
  /\ runs' = [runs EXCEPT ![r] =
       [runs[r] EXCEPT !.writer = "none",
                       !.lost = @ \cup {Head(runs[r].pending).name},
                       !.pc = "stalled"]]
  /\ UNCHANGED <<tree, options, service, tempDirExists, staged, dirOwner, clock,
                 parseVars, findVars>>

\* The writer of an already resolved download emits 'finish': all the
\* bytes of the file are at its staging path.
WriterFinish(r) ==
  /\ \E name \in runs[r].flushing \cap staged :
       runs' = [runs EXCEPT ![r].flushing = @ \ {name}]
  /\ UNCHANGED <<tree, options, service, tempDirExists, staged, dirOwner, clock,
                 parseVars, findVars>>

\* The writer of an already resolved download emits 'error': the file
\* stays incomplete.  The uncaught exception ends the process (the call
\* never returns), or a process-level handler lets the call go on.
WriterErrorLate(r) ==
  /\ runs[r].pc \notin {"returned", "thrown", "stalled"}
  /\ \E name \in runs[r].flushing \cap staged, dies \in BOOLEAN :
       runs' = [runs EXCEPT ![r] =
         [runs[r] EXCEPT !.flushing = @ \ {name},
                         !.lost = @ \cup {name},
                         !.pc = IF dies THEN "stalled" ELSE @]]
  /\ UNCHANGED <<tree, options, service, tempDirExists, staged, dirOwner, clock,
                 parseVars, findVars>>

\* ------------------------------------------------------------------------
\* After the loop: the empty case, or convertFiles
\* ------------------------------------------------------------------------

\* processInput without the early return for an empty candidate list.
NothingToConvertNeverChecked(files) == FALSE

\* allFiles.length === 0
NothingToConvert(files) == Len(files) = 0

\* return { total: 0, successful: 0, failed: 0, totalTime: 0 }
ReturnEmpty(r) ==
  /\ runs[r].pc = "loop"
  /\ runs[r].idx > Len(runs[r].inputs)
  /\ NothingToConvert(runs[r].allFiles)
  /\ runs' = [runs EXCEPT ![r] = [runs[r] EXCEPT !.retval = ZeroStats, !.pc = "finally"]]
  /\ UNCHANGED <<tree, options, service, tempDirExists, staged, dirOwner, clock,
                 parseVars, findVars>>

\* The start of convertFiles(inputPaths): the stats and startTime.
EnterConvertFiles(run, inputPaths, now) ==
  [run EXCEPT !.allFiles = inputPaths,
              !.stats = [total |-> Len(inputPaths), successful |-> 0,
                         failed |-> 0, totalTime |-> 0],
              !.startTime = now, !.ci = 1, !.engineCalls = @ + 1,
              !.pc = "convertFiles"]

\* const stats = await this.convertFiles(allFiles)
CallConvertFiles(r) ==
  /\ runs[r].pc = "loop"
  /\ runs[r].idx > Len(runs[r].inputs)
  /\ ~NothingToConvert(runs[r].allFiles)
  /\ runs' = [runs EXCEPT ![r] = EnterConvertFiles(runs[r], runs[r].allFiles, clock)]
  /\ UNCHANGED <<tree, options, service, tempDirExists, staged, dirOwner, clock,
                 parseVars, findVars>>

\* convertFiles(paths) called directly (it is a public method).
StartConvertFiles(r, paths) ==
  /\ runs[r].pc = "idle"
  /\ runs' = [runs EXCEPT ![r] =
       EnterConvertFiles([IdleRun EXCEPT !.entry = "convertFiles"], paths, clock)]
  /\ UNCHANGED <<tree, options, service, tempDirExists, staged, dirOwner, clock,
                 parseVars, findVars>>

\* The loop of convertFiles reaches a file: convertFile reads Date.now().
ConvertFileBegin(r) ==
  /\ runs[r].pc = "convertFiles"
  /\ runs[r].ci <= Len(runs[r].allFiles)
  /\ runs' = [runs EXCEPT ![r] = [runs[r] EXCEPT !.fileStart = clock, !.pc = "convertFile"]]
  /\ UNCHANGED <<tree, options, service, tempDirExists, staged, dirOwner, clock,
                 parseVars, findVars>>

\* The loop of convertFiles leaving at the first failed file.
RecordedStopsAtFailure(run, result) ==
  [run EXCEPT !.stats = IF result.success
                        THEN [@ EXCEPT !.successful = @ + 1]
                        ELSE [@ EXCEPT !.failed = @ + 1],
              !.ci = IF result.success THEN @ + 1 ELSE Len(run.allFiles) + 1,
              !.pc = "convertFiles"]

\* if (result.success) stats.successful++ else stats.failed++, and the
\* loop goes on to the next file.
Recorded(run, result) ==
  [run EXCEPT !.stats = IF result.success
                        THEN [@ EXCEPT !.successful = @ + 1]
                        ELSE [@ EXCEPT !.failed = @ + 1],
              !.ci = @ + 1,
              !.pc = "convertFiles"]

\* Whether the file and the environment are such that a conversion has to
\* succeed: a regular file with a TIFF extension, TIFF by the metadata
\* probe, whose output directory and output file can be written.
Convertible(inputPath, statKind, env) ==
  /\ statKind = "file"
  /\ IsTiffName(Last(inputPath))
  /\ env.meta = "tiff"
  /\ env.ensureDir
  /\ env.toFile

\* convertFile returns (or throws, which convertFiles does not catch).
ConvertFileEnd(r) ==
  /\ runs[r].pc = "convertFile"
  /\ \E env \in ConvEnvs :
       LET run      == runs[r]
           path     == run.allFiles[run.ci]
           statKind == Stat(tree, tempDirExists, staged, path)
           out      == ConvertFile(path, statKind, env, options, clock - run.fileStart)
           called   == [run EXCEPT
                          !.codecCalls = @ + CodecCallsOf(path, statKind, env),
                          !.expect = Append(@, Convertible(path, statKind, env))]
       IN  runs' = [runs EXCEPT ![r] =
             IF out.threw
             THEN Throw(called, out.error)
             ELSE Recorded([called EXCEPT !.results = Append(@, out.value)], out.value)]
  /\ UNCHANGED <<tree, options, service, tempDirExists, staged, dirOwner, clock,
                 parseVars, findVars>>

\* The sum of the processingTime of a sequence of results.
RECURSIVE SumOfProcessingTimes(_)
SumOfProcessingTimes(results) ==
  IF results = <<>> THEN 0
  ELSE Head(results).processingTime + SumOfProcessingTimes(Tail(results))

\* convertFiles adding up the processingTime of its results.
TotalTimeSummed(run, now) == SumOfProcessingTimes(run.results)

\* Date.now() - startTime
TotalTime(run, now) == now - run.startTime

\* stats.totalTime = Date.now() - startTime; return stats
ConvertFilesReturn(r) ==
  /\ runs[r].pc = "convertFiles"
  /\ runs[r].ci > Len(runs[r].allFiles)
  /\ LET stats == [runs[r].stats EXCEPT !.totalTime = TotalTime(runs[r], clock)]
     IN  runs' = [runs EXCEPT ![r] =
           [runs[r] EXCEPT !.stats = stats, !.retval = stats,
                           !.pc = IF runs[r].entry = "processInput"
                                  THEN "finally" ELSE "returned"]]
  /\ UNCHANGED <<tree, options, service, tempDirExists, staged, dirOwner, clock,
                 parseVars, findVars>>

\* ------------------------------------------------------------------------
\* The finally block of processInput
\* ------------------------------------------------------------------------

\* The cleanup written after the try block instead of in a finally block:
\* it is skipped when the try block throws.
AfterCleanupSkippedOnThrow(exists, threw) == exists /\ threw

\* Whether the staging directory is there after the finally block:
\* if (await fs.pathExists(tempDir)) await fs.remove(tempDir).
\* fs.remove is taken to succeed.
AfterCleanup(exists, threw) == FALSE

Finally(r) ==
  /\ runs[r].pc = "finally"
  /\ LET threw == runs[r].error # ""
         left  == AfterCleanup(tempDirExists, threw)
     IN  /\ tempDirExists' = left
         /\ staged' = IF left THEN staged ELSE {}
         /\ dirOwner' = IF left THEN dirOwner ELSE 0
         /\ runs' = [runs EXCEPT ![r] =
              [runs[r] EXCEPT !.removed = IF tempDirExists /\ ~left THEN dirOwner ELSE 0,
                              !.retval = IF threw THEN NoStats ELSE @,
                              !.pc = IF threw THEN "thrown" ELSE "returned"]]
  /\ UNCHANGED <<tree, options, service, clock, parseVars, findVars>>

\* ------------------------------------------------------------------------
\* Date.now()
\* ------------------------------------------------------------------------

\* A millisecond passes.  Only convertFiles and convertFile read the clock,
\* so it moves only while one of them runs.
Tick ==
  /\ clock < MaxClock
  /\ \E r \in Runs : runs[r].pc \in {"convertFiles", "convertFile"}
  /\ clock' = clock + 1
  /\ UNCHANGED <<tree, options, service, tempDirExists, staged, dirOwner, runs,
                 parseVars, findVars>>

\* ------------------------------------------------------------------------
\* The inputs the parser is checked on: a head followed by at most
\* MaxChunks chunks.
\* ------------------------------------------------------------------------

Https == <<"h","t","t","p","s",":","/","/">>

Heads ==
  { <<>>,
    Https \o DriveDomain,
    Https \o <<"D","R","I","V","E",".","g","o","o","g","l","e",".","c","o","m">>,
    Https \o <<"i","d","=","Z","@">> \o DriveDomain,
    Https \o <<"e","v","i","l",".","c","o","m">>,
    Https \o <<"x",".">> \o DriveDomain \o <<".","e","v","i","l",".","c","o","m">>,
    <<"x">> \o Https \o DriveDomain,
    DriveDomain }

Chunks ==
  { <<"/","f","o","l","d","e","r","s","/">>, <<"/","d","/">>, <<"?","i","d","=">>,
    <<"#">>, <<"A","b">>, <<"Q">> }

RECURSIVE Concat(_)
Concat(ss) == IF ss = <<>> THEN <<>> ELSE Head(ss) \o Concat(Tail(ss))

ChunkSeqs(max) == UNION {[1..n -> Chunks] : n \in 0..max}

ParserInputs(max) == {h \o Concat(cs) : h \in Heads, cs \in ChunkSeqs(max)}

NotParsed == [type |-> "none"]

InitParse ==
  /\ input \in ParserInputs(MaxChunks)
  /\ parsed = NotParsed
  /\ tree = <<>>
  /\ options = [recursive |-> FALSE, outputDir |-> <<>>]
  /\ call = [op |-> "none"]
  /\ ret = [op |-> "none"]
  /\ PipelineIdle

\* A call of InputParser.parse(input).
ParseCall ==
  /\ parsed = NotParsed
  /\ parsed' = Parse(input)
  /\ UNCHANGED <<input, tree, options, findVars, pipeVars>>

NextParse == ParseCall

SpecParse == InitParse /\ [][NextParse]_vars

\* ------------------------------------------------------------------------
\* The file systems the local expander is checked on: at most MaxNodes
\* entries, every entry in a directory, no two entries of a directory with
\* the same name.
\* ------------------------------------------------------------------------

Letter(i) == <<"a", "b", "c", "d", "e", "f", "g", "h">>[i]

FileNames(i) ==
  { <<Letter(i)>> \o TifExt,
    <<Letter(i)>> \o <<".", "T", "I", "F", "F">>,
    <<Letter(i)>> \o <<".", "j", "p", "g">>,
    TifExt }

Entries(i) ==
  [parent : 0..(i - 1), kind : {"file"}, name : FileNames(i)]
    \cup [parent : 0..(i - 1), kind : {"dir", "fifo"}, name : {<<Letter(i)>>}]
    \cup [parent : 0..(i - 1), kind : {"link"}, name : {<<Letter(i)>> \o TifExt}]

WellFormed(t) ==
  /\ \A n \in NodesOf(t) : t[n] \in Entries(n) /\ KindOf(t, t[n].parent) = "dir"
  /\ \A m, n \in NodesOf(t) :
       (m # n /\ t[m].parent = t[n].parent) => t[m].name # t[n].name

\* The well-formed file systems of exactly k entries.
RECURSIVE TreesOfSize(_)
TreesOfSize(k) ==
  IF k = 0 THEN {<<>>}
  ELSE {t \in {Append(s, e) : s \in TreesOfSize(k - 1), e \in Entries(k)} :
          WellFormed(t)}

Trees(max) == UNION {TreesOfSize(k) : k \in 0..max}

\* A path as the string a user types: its segments joined by '/'.
RECURSIVE PathString(_)
PathString(p) ==
  IF p = <<>> THEN <<>>
  ELSE IF Len(p) = 1 THEN p[1]
  ELSE p[1] \o <<"/">> \o PathString(Tail(p))

\* The path of node n relative to the working directory.
RelativePath(t, n) == PathString(From(PathOf(t, n), Len(Cwd) + 1))

NoCall == [op |-> "none"]

\* A path that names nothing in any of the file systems.
NoSuchPath == <<"n", "o", "p", "e">>

OptionSets == [recursive : BOOLEAN, outputDir : {<<>>, << <<"o">> >>}]

InitFind ==
  /\ tree \in Trees(MaxNodes)
  /\ options \in OptionSets
  /\ call = NoCall
  /\ ret = NoCall
  /\ input = <<>>
  /\ parsed = NotParsed
  /\ PipelineIdle

\* A call of findTiffFiles(directory) on a directory of the file system.
FindTiffFilesCall(d) ==
  /\ call = NoCall
  /\ KindOf(tree, d) = "dir"
  /\ call' = [op |-> "findTiffFiles", node |-> d]
  /\ ret' = Returned(FindTiffFiles(tree, d, options.recursive))
  /\ UNCHANGED <<tree, options, parseVars, pipeVars>>

\* The string a user types for node n: its path relative to the working
\* directory, '.' for the working directory, 'nope' for nothing at all.
TypedPath(t, n) ==
  IF n = Missing THEN NoSuchPath
  ELSE IF n = 0 THEN <<".">>
  ELSE RelativePath(t, n)

\* A call of processLocalPath(inputPath), inputPath naming an entry of the
\* file system, the working directory, or nothing at all.
ProcessLocalPathCall(n) ==
  /\ call = NoCall
  /\ call' = [op |-> "processLocalPath", node |-> n]
  /\ ret' = ProcessLocalPath(tree, TypedPath(tree, n), options.recursive)
  /\ UNCHANGED <<tree, options, parseVars, pipeVars>>

NextFind ==
  \/ \E d \in NodesOf(tree) \cup {0} : FindTiffFilesCall(d)
  \/ \E n \in NodesOf(tree) \cup {0, Missing} : ProcessLocalPathCall(n)

SpecFind == InitFind /\ [][NextFind]_vars

\* ------------------------------------------------------------------------
\* The pipeline's world: the file system, the inputs, the service
\* ------------------------------------------------------------------------

\* /w/p/b.tif, /w/c.jpg, and the empty directory /w/e
PipelineTree ==
  << [parent |-> 0, kind |-> "dir",  name |-> <<"p">>],
     [parent |-> 1, kind |-> "file", name |-> <<"b", ".", "t", "i", "f">>],
     [parent |-> 0, kind |-> "file", name |-> <<"c", ".", "j", "p", "g">>],
     [parent |-> 0, kind |-> "dir",  name |-> <<"e">> ] >>

DriveUrl == Https \o DriveDomain \o <<"/", "d", "/", "Q">>

\* A directory, a file that is no TIFF, an empty directory, a path that
\* does not exist, and a Drive folder.
Locators ==
  { <<"p">>, <<"c", ".", "j", "p", "g">>, <<"e">>, NoSuchPath, DriveUrl }

InputLists == UNION {[1..n -> Locators] : n \in 0..MaxInputs}

\* googleDriveService: not given, given but not initialized, initialized.
Services == {"none", "uninit", "ready"}

\* The options of a pipeline run: the defaults, or --recursive --output o.
PipelineOptions ==
  { [recursive |-> FALSE, outputDir |-> <<>>],
    [recursive |-> TRUE, outputDir |-> << <<"o">> >>] }

InitPipeline ==
  /\ tree = PipelineTree
  /\ options \in PipelineOptions
  /\ service \in Services
  /\ tempDirExists = FALSE
  /\ staged = {}
  /\ dirOwner = 0
  /\ clock = 0
  /\ runs = [r \in Runs |-> IdleRun]
  /\ input = <<>>
  /\ parsed = NotParsed
  /\ call = NoCall
  /\ ret = NoCall

\* A step of a call of processInput that has started.
RunStep(r) ==
  \/ EnsureDir(r)
  \/ ExpandLocal(r)
  \/ ExpandRemote(r)
  \/ ListFiles(r)
  \/ DownloadFile(r)
  \/ DownloadsDone(r)
  \/ ReturnEmpty(r)
  \/ CallConvertFiles(r)
  \/ ConvertFileBegin(r)
  \/ ConvertFileEnd(r)
  \/ ConvertFilesReturn(r)
  \/ Finally(r)

\* One call of processInput.  Its control flow never reads the clock
\* (only the totalTime and processingTime it reports do), so here the
\* clock stands still; SpecConvert and SpecOverlap let it run.
Next ==
  \/ \E ins \in InputLists : Start(1, ins)
  \/ RunStep(1)

Spec == InitPipeline /\ [][Next]_vars

\* Two calls of processInput from the same working directory (two
\* processes started there, or two calls on one converter), which may
\* overlap in time; each is given at most MaxOverlapInputs inputs.
OverlapInputLists == UNION {[1..n -> Locators] : n \in 0..MaxOverlapInputs}

InitOverlap ==
  /\ tree = PipelineTree
  /\ options = [recursive |-> FALSE, outputDir |-> <<>>]
  /\ service \in Services
  /\ tempDirExists = FALSE
  /\ staged = {}
  /\ dirOwner = 0
  /\ clock = 0
  /\ runs = [r \in Runs |-> IdleRun]
  /\ input = <<>>
  /\ parsed = NotParsed
  /\ call = NoCall
  /\ ret = NoCall

NextOverlap ==
  \/ \E r \in Runs :
       \/ \E ins \in OverlapInputLists : Start(r, ins)
       \/ RunStep(r)
  \/ Tick

SpecOverlap == InitOverlap /\ [][NextOverlap]_vars

\* Direct calls of convertFiles, on lists of paths naming a TIFF file, a
\* JPEG file, a directory and nothing.
ConvertPaths ==
  { PathOf(PipelineTree, 2), PathOf(PipelineTree, 3), PathOf(PipelineTree, 1),
    Join(Cwd, <<"x", ".", "t", "i", "f">>) }

PathLists == UNION {[1..n -> ConvertPaths] : n \in 0..MaxFiles}

NextConvert ==
  \/ \E paths \in PathLists : StartConvertFiles(1, paths)
  \/ ConvertFileBegin(1)
  \/ ConvertFileEnd(1)
  \/ ConvertFilesReturn(1)
  \/ Tick

InitConvert ==
  /\ tree = PipelineTree
  /\ options \in OptionSets
  /\ PipelineIdle
  /\ input = <<>>
  /\ parsed = NotParsed
  /\ call = NoCall
  /\ ret = NoCall

SpecConvert == InitConvert /\ [][NextConvert]_vars

\* One call of processInput with an initialized service, the downloads
\* followed stream by stream.
DownloadInputLists == UNION {[1..n -> {<<"e">>, DriveUrl}] : n \in 0..MaxInputs}

InitDownload ==
  /\ tree = PipelineTree
  /\ options = [recursive |-> FALSE, outputDir |-> <<>>]
  /\ service = "ready"
  /\ tempDirExists = FALSE
  /\ staged = {}
  /\ dirOwner = 0
  /\ clock = 0
  /\ runs = [r \in Runs |-> IdleRun]
  /\ input = <<>>
  /\ parsed = NotParsed
  /\ call = NoCall
  /\ ret = NoCall

NextDownload ==
  \/ \E ins \in DownloadInputLists : Start(1, ins)
  \/ EnsureDir(1)
  \/ ExpandLocal(1)
  \/ ExpandRemote(1)
  \/ ListFiles(1)
  \/ DownloadRequest(1)
  \/ StreamEnd(1)
  \/ StreamError(1)
  \/ WriterError(1)
  \/ WriterFinish(1)
  \/ WriterErrorLate(1)
  \/ DownloadsDone(1)
  \/ ReturnEmpty(1)
  \/ CallConvertFiles(1)
  \/ ConvertFileBegin(1)
  \/ ConvertFileEnd(1)
  \/ ConvertFilesReturn(1)
  \/ Finally(1)

SpecDownload == InitDownload /\ [][NextDownload]_vars

\* ========================================================================
\* Properties
\* ========================================================================

\* The calls of processInput.
Pipelines == {r \in Runs : runs[r].entry = "processInput"}

\* Where a call of processInput fetches from the remote folder or converts.
Working == {"list", "download", "convertFiles", "convertFile"}

\* C1: for every run of processInput the staging directory exists while a
\* remote fetch or a conversion step of the run executes, and it does not
\* exist once processInput has returned or thrown, whatever made it fail.
C1_StagingLifetime ==
  \A r \in Pipelines :
    /\ runs[r].pc \in Working => tempDirExists
    /\ runs[r].pc \in {"returned", "thrown"} => ~tempDirExists

\* A run whose listing failed has thrown, after its cleanup removed the
\* directory it had created.
C1_Witness ==
  \E r \in Pipelines :
    /\ runs[r].pc = "thrown"
    /\ runs[r].fault = "list"
    /\ runs[r].removed = r
    /\ ~tempDirExists

\* The number of positions of a sequence of booleans that hold FALSE.
CountFalse(bs) == Cardinality({i \in 1..Len(bs) : ~bs[i]})

\* C2: convertFiles over K paths of which exactly F cannot be converted, in
\* any positions, converts every path, never raises, and returns
\* total = K, failed = F, successful = K - F.
C2_CountsEveryFile ==
  \A r \in Runs :
    /\ runs[r].pc # "thrown"
    /\ runs[r].pc = "returned" =>
         LET K == Len(runs[r].allFiles)
             F == CountFalse(runs[r].expect)
         IN  /\ Len(runs[r].results) = K
             /\ Len(runs[r].expect) = K
             /\ \A i \in 1..K : runs[r].results[i].inputPath = runs[r].allFiles[i]
             /\ runs[r].retval.total = K
             /\ runs[r].retval.failed = F
             /\ runs[r].retval.successful = K - F
             /\ runs[r].retval.successful + runs[r].retval.failed = runs[r].retval.total

\* convertFiles has returned for two paths of which the first could not be
\* converted and the second was.
C2_Witness ==
  \E r \in Runs :
    /\ runs[r].pc = "returned"
    /\ Len(runs[r].allFiles) = 2
    /\ runs[r].expect = <<FALSE, TRUE>>
    /\ runs[r].retval.successful = 1

\* {outputDir, or the input's directory}/{basename without extension}.jpg
ExpectedOutputPath(inputPath, opts) ==
  LET name == inputPath[Len(inputPath)]
      dot  == MaxOf({i \in 1..Len(name) : name[i] = "."})
      dir  == IF opts.outputDir # <<>> THEN opts.outputDir
              ELSE SubSeq(inputPath, 1, Len(inputPath) - 1)
  IN  dir \o << SubSeq(name, 1, dot - 1) \o <<".", "j", "p", "g">> >>

\* C3: convertFile never throws; a file that cannot be converted yields a
\* returned outcome with success = false, an error message and an empty
\* outputPath; an outcome with success = true carries the non-empty path
\* {outputDir or the input's directory}/{basename without extension}.jpg.
C3_ConvertFileOutcome ==
  \A r \in Runs :
    /\ runs[r].error = ""
    /\ Len(runs[r].results) = Len(runs[r].expect)
    /\ \A i \in 1..Len(runs[r].results) :
         LET res == runs[r].results[i]
         IN  /\ res.inputPath = runs[r].allFiles[i]
             /\ res.success <=> runs[r].expect[i]
             /\ ~res.success => res.error # "" /\ res.outputPath = <<>>
             /\ res.success =>
                  /\ res.outputPath # <<>>
                  /\ res.outputPath = ExpectedOutputPath(res.inputPath, options)

\* With an output directory configured, a codec failure was returned as an
\* outcome and the next file was converted into the output directory.
C3_Witness ==
  \E r \in Runs :
    /\ options.outputDir # <<>>
    /\ Len(runs[r].results) = 2
    /\ runs[r].results[1].error = "codec failed"
    /\ runs[r].results[2].success

\* C4 as stated: processInput fails only with the missing remote service
\* or with a failure to create the staging directory.
C4_OnlyServiceOrSetupFails ==
  \A r \in Pipelines :
    runs[r].pc = "thrown" => runs[r].fault \in {"serviceMissing", "ensureDir"}

\* What fails a run: the setup step and the input-expansion steps.
FatalFaults ==
  {"ensureDir", "serviceMissing", "notInitialized", "pathMissing", "list", "download"}

\* C4 amended: processInput fails only with a failure to create the staging
\* directory, a missing or uninitialized remote service, a local path that
\* does not exist, a listing failure or a download failure; validation and
\* codec failures are absorbed into the per-file outcomes and the run
\* returns its statistics.
C4_FailsOnlyInSetupOrExpansion ==
  \A r \in Pipelines :
    /\ runs[r].pc = "thrown" =>
         /\ runs[r].fault \in FatalFaults
         /\ runs[r].retval = NoStats
    /\ runs[r].results # <<>> => runs[r].error = "" /\ runs[r].fault = ""
    /\ runs[r].pc = "returned" =>
         /\ runs[r].fault = ""
         /\ runs[r].retval # NoStats
         /\ runs[r].retval.total = Len(runs[r].allFiles)
         /\ runs[r].retval.failed = CountFalse(runs[r].expect)

\* A run has thrown because its second input names a path that does not
\* exist.
C4_Witness ==
  \E r \in Pipelines :
    /\ runs[r].pc = "thrown"
    /\ runs[r].fault = "pathMissing"
    /\ runs[r].idx = 2

ExpansionFaults == {"serviceMissing", "notInitialized", "pathMissing", "list", "download"}

\* C5: when the expansion of any input fails, processInput throws, returns
\* no statistics, and neither convertFiles nor the codec is invoked for any
\* candidate file of the run.
C5_ExpansionErrorsAreFatal ==
  \A r \in Pipelines :
    /\ runs[r].fault \in ExpansionFaults =>
         /\ runs[r].pc \in {"finally", "thrown"}
         /\ runs[r].error # ""
         /\ runs[r].retval = NoStats
         /\ runs[r].engineCalls = 0
         /\ runs[r].codecCalls = 0
         /\ runs[r].results = <<>>
    /\ runs[r].pc = "returned" => runs[r].fault = ""

\* A run has thrown on a download failure with candidates collected from
\* an earlier input and a file already downloaded from the same folder.
C5_Witness ==
  \E r \in Pipelines :
    /\ runs[r].pc = "thrown"
    /\ runs[r].fault = "download"
    /\ runs[r].allFiles # <<>>
    /\ runs[r].downloaded # <<>>

\* The inputs of a list that are remote-folder locators.
RemoteInputs(ins) == {i \in 1..Len(ins) : Parse(ins[i]).type = "google-drive"}

\* A run that returned with no candidate file.
ReturnedEmpty(r) ==
  /\ r \in Pipelines
  /\ runs[r].pc = "returned"
  /\ runs[r].allFiles = <<>>

\* C6 as stated: a run whose inputs expand to no candidate file returns
\* zero counts without invoking the codec and without any call to the
\* remote collaborator.
C6_NoCodecNoRemoteCall ==
  \A r \in Runs :
    ReturnedEmpty(r) =>
      /\ runs[r].retval.total = 0
      /\ runs[r].retval.successful = 0
      /\ runs[r].retval.failed = 0
      /\ runs[r].codecCalls = 0
      /\ runs[r].listCalls + runs[r].downloadCalls = 0

\* C6 amended: such a run returns zero counts without invoking convertFiles
\* or the codec and without any download; it calls the remote collaborator
\* only to list each remote-folder input, once.
C6_EmptyRunIsZero ==
  \A r \in Runs :
    ReturnedEmpty(r) =>
      /\ runs[r].retval.total = 0
      /\ runs[r].retval.successful = 0
      /\ runs[r].retval.failed = 0
      /\ runs[r].engineCalls = 0
      /\ runs[r].codecCalls = 0
      /\ runs[r].downloadCalls = 0
      /\ runs[r].listCalls = Cardinality(RemoteInputs(runs[r].inputs))

\* A run over an empty directory and a Drive folder whose listing is empty
\* has returned.
C6_Witness ==
  \E r \in Runs :
    /\ ReturnedEmpty(r)
    /\ Len(runs[r].inputs) = 2
    /\ runs[r].listCalls = 1

\* Whether new URL(s) succeeds with a host that contains the Drive domain.
HostMatches(s) == UrlParse(s).ok /\ Includes(UrlParse(s).hostname, DriveDomain)

\* The path and query of a URL: what follows the authority, up to '#'.
PathAndQuery(s) ==
  LET rest == UrlParse(s).rest
  IN  PrefixIn(rest, {c \in {rest[i] : i \in 1..Len(rest)} : c # "#"})

\* C7: for an input whose host contains the Drive domain, parse returns
\* google-drive with the folder id captured by the first of the three
\* patterns that matches the URL's path and query, and local when none
\* does; folderId is present exactly in a google-drive result.
C7_FirstPatternOnPathAndQuery ==
  parsed # NotParsed =>
    /\ ("folderId" \in DOMAIN parsed) <=> (parsed.type = "google-drive")
    /\ HostMatches(input) =>
         LET folderId == ExtractFolderId(PathAndQuery(input))
         IN  IF folderId # <<>>
             THEN parsed = [type |-> "google-drive", path |-> input,
                            folderId |-> folderId]
             ELSE parsed = [type |-> "local", path |-> input]

\* C8: an input that is no URL, or a URL whose host does not contain the
\* Drive domain, is classified local with the input unchanged and no
\* folderId, even when it contains one of the three patterns.
C8_NonDriveIsLocal ==
  (parsed # NotParsed /\ ~HostMatches(input)) =>
    parsed = [type |-> "local", path |-> input]

\* A URL of another host that contains /folders/<id> was classified.
C8_Witness ==
  /\ parsed # NotParsed
  /\ UrlParse(input).ok
  /\ ~HostMatches(input)
  /\ MatchCapture(input, FolderPatterns[1]) # <<>>

\* A file name whose extension, lower-cased, is .tif or .tiff.
HasTiffExtension(name) ==
  \E k \in 2..Len(name) :
    /\ name[k] = "."
    /\ \A j \in (k + 1)..Len(name) : name[j] # "."
    /\ ToLowerCase(SubSeq(name, k, Len(name))) \in
         { <<".", "t", "i", "f">>, <<".", "t", "i", "f", "f">> }

\* The directories node n lies in, directly or not.
RECURSIVE Ancestors(_, _)
Ancestors(t, n) ==
  IF n = 0 THEN {} ELSE {t[n].parent} \cup Ancestors(t, t[n].parent)

\* The regular files with a TIFF extension directly in directory d, or, when
\* recursive, anywhere below it.
Qualifying(t, d, recursive) ==
  {n \in NodesOf(t) :
     /\ t[n].kind = "file"
     /\ HasTiffExtension(t[n].name)
     /\ IF recursive THEN d \in Ancestors(t, n) ELSE t[n].parent = d}

\* C9: findTiffFiles returns exactly the regular files with a TIFF
\* extension directly in the directory (recursive = false) or in its whole
\* subtree (recursive = true), each once; processLocalPath on a regular
\* file returns that single resolved path whatever its extension, and
\* fails when the path does not exist.
C9_LocalExpansion ==
  /\ call.op = "findTiffFiles" =>
       /\ ~ret.threw
       /\ \A i, j \in 1..Len(ret.value) : i # j => ret.value[i] # ret.value[j]
       /\ {ret.value[i] : i \in 1..Len(ret.value)} =
            {PathOf(tree, n) : n \in Qualifying(tree, call.node, options.recursive)}
  /\ call.op = "processLocalPath" =>
       /\ call.node = Missing => ret.threw
       /\ (call.node > 0 /\ tree[call.node].kind = "file") =>
            ret = Returned(<<PathOf(tree, call.node)>>)

\* A recursive search of the working directory returned a file of a
\* subdirectory and left out a file that does not qualify.
C9_Witness ==
  /\ call.op = "findTiffFiles"
  /\ call.node = 0
  /\ options.recursive
  /\ \E i \in 1..Len(ret.value) : Len(ret.value[i]) = Len(Cwd) + 2
  /\ \E n \in NodesOf(tree) : tree[n].kind = "file" /\ ~HasTiffExtension(tree[n].name)

\* C10: the staging directory a run works in was created by that run and by
\* no other, it exists as long as the run fetches or converts, and a run's
\* cleanup removes only a directory that this run created.
C10_StagingNotShared ==
  \A r \in Pipelines :
    /\ runs[r].pc \in Working => tempDirExists /\ dirOwner = r
    /\ runs[r].removed \in {0, r}

\* The staged names of a sequence of staging paths.
StagedNames(paths) ==
  {Last(paths[i]) : i \in {j \in 1..Len(paths) : Dirname(paths[j]) = TempDir}}

\* C11: when downloadFile has completed for a remote file, the write stream
\* of that file has finished before its path is appended to the fetcher's
\* result and before its conversion can start; and a failure of the write
\* is reported as a download failure (processInput throws), never lost nor
\* left pending.
C11_WrittenBeforeAppended ==
  \A r \in Pipelines :
    /\ StagedNames(runs[r].downloaded) \cap runs[r].flushing = {}
    /\ runs[r].pc = "convertFile" =>
         StagedNames(<<runs[r].allFiles[runs[r].ci]>>) \cap runs[r].flushing = {}
    /\ runs[r].lost # {} =>
         /\ runs[r].fault = "download"
         /\ runs[r].pc \in {"finally", "thrown"}

\* A call of convertFiles that has returned its statistics.
ConvertFilesReturned(r) ==
  /\ runs[r].pc = "returned"
  /\ runs[r].engineCalls = 1

====
